---- MODULE Spec2Model ----
(***************************************************************************)
(* Allocation engine of the voucher system: process_order (SQLite,         *)
(* src/voucher_system.py) and process_order_postgres (PostgreSQL,          *)
(* src/voucher_postgres.py), with the ingestion that fills raw_pool.       *)
(*                                                                         *)
(* Time is counted in whole days on one clock (now).  A row of raw_pool    *)
(* is [phone, provider, imported_at]; url_source and file_source are never *)
(* read by an order and are left out.  A row of sales_history is           *)
(* [phone, customer, sold_at].  Each order is one call of process_order,   *)
(* identified by its customer_name.  Every SQL statement is one atomic     *)
(* step; other connections may run between two statements of an order.    *)
(* PostgreSQL runs at its default READ COMMITTED level: a statement sees   *)
(* what was committed when it starts, plus its own transaction's rows.     *)
(* SQLite (rollback journal, sqlite3's implicit BEGIN before an INSERT)    *)
(* lets one connection write at a time and lets the others read the        *)
(* committed rows meanwhile.                                               *)
(*                                                                         *)
(* Spec is the allocation engine with ingestion.  SpecTwice is the test    *)
(* scenario of one order run twice.  SpecPart is init_db_partitions.       *)
(* SpecConn is the path of a connection through an operation: taken,       *)
(* cursor, statements, commit or rollback, given back.                     *)
(***************************************************************************)
EXTENDS Integers, Sequences, FiniteSets, TLC

VARIABLES
    backend,    \* "postgres" | "sqlite": which of the two files is running
    now,        \* the clock, in days
    pool,       \* committed rows of raw_pool
    ledger,     \* committed rows of sales_history
    lockHolder, \* sqlite: the customer whose connection holds the write lock, or "none"
    pc,         \* per order: "idle", "select", "insert", "commit", "committed", "failed"
    reqs,       \* per order: the requirements argument
    idx,        \* per order: position of the for loop (1-based)
    txnNow,     \* per order: the instant the cutoffs are computed from
    alloc,      \* per order: found_numbers of every requirement processed so far
    pending,    \* per order: rows inserted in sales_history and not yet committed
    results,    \* per order: the results dict
    ret,        \* per order: what the caller got
    partitions, \* days that have a committed partition of raw_pool
    job,        \* per call of init_db_partitions: its position and its locals
    inUse,      \* connections taken and not given back
    op          \* per worker: the operation it runs, its position, its conn and cur

vars == <<backend, now, pool, ledger, lockHolder, pc, reqs, idx, txnNow,
          alloc, pending, results, ret, partitions, job, inUse, op>>

orderVars == <<pc, reqs, idx, txnNow, alloc, pending, results, ret>>

\* the tables and the orders
storeVars == <<backend, pool, ledger, lockHolder, orderVars>>

\* the connections
connVars == <<inUse, op>>

\* what init_db_partitions works on, and the connections
adminVars == <<partitions, job, connVars>>

----------------------------------------------------------------------------
(* Program constants *)

\* cutoff_days = 30 / timedelta(days=30)
CutoffDays == 30

\* freshness_days = 3 / timedelta(days=3)
FreshnessDays == 3

----------------------------------------------------------------------------
(* Bounds of the model *)

\* raw_pool holds at most this many rows
MaxPool == 2

\* the quantities a requirement asks for
Quantities == {1, 2}

\* the lengths of a requirements list
ListLengths == {1, 2}

Backends == {"postgres", "sqlite"}

\* the two orders of the test scenario (voucher_system.py 199, 206)
Customers == {"Anto", "Anto_Repeat"}

\* phone numbers as digit strings: four digits of prefix and one more
Phones == {<<0, 8, 1, 2, 1>>, <<0, 8, 1, 2, 2>>, <<0, 8, 5, 7, 1>>}

\* providers an order asks for
WantedProviders == {"tsel", "isat"}

\* the instants the clock visits.  From day 0, day 3 is the last day of the
\* freshness window and day 33 lies past the reuse window; from day 3, day 33
\* is the last day of the reuse window.
Instants == {0, FreshnessDays, FreshnessDays + CutoffDays}

----------------------------------------------------------------------------
(* Helpers *)

Min(a, b) == IF a <= b THEN a ELSE b

Range(s) == {s[k] : k \in 1..Len(s)}

RECURSIVE SetToSeq(_)
\* the elements of a finite set of integers, ascending
SetToSeq(S) ==
    IF S = {} THEN <<>>
    ELSE LET m == CHOOSE x \in S : \A y \in S : x <= y
         IN  <<m>> \o SetToSeq(S \ {m})

\* phone.startswith(prefix)
StartsWith(phone, prefix) ==
    /\ Len(phone) >= Len(prefix)
    /\ SubSeq(phone, 1, Len(prefix)) = prefix

\* provider detection of ingest_file / ingest_file_postgres
ProviderOf(phone) ==
    IF StartsWith(phone, <<0, 8, 1, 2>>) THEN "tsel"
    ELSE IF StartsWith(phone, <<0, 8, 5, 7>>) THEN "isat"
    ELSE IF StartsWith(phone, <<0, 8, 1, 9>>) THEN "xl"
    ELSE "other"

\* one record appended to records
PoolRow(phone, ts) == [phone |-> phone, provider |-> ProviderOf(phone), imported_at |-> ts]

RECURSIVE PhoneNo(_)
\* a phone number read as a number
PhoneNo(phone) ==
    IF phone = <<>> THEN 0
    ELSE 10 * PhoneNo(SubSeq(phone, 1, Len(phone) - 1)) + phone[Len(phone)]

CustomerNo(c) == IF c = "Anto" THEN 1 ELSE 2

\* A table is a bag of rows; the model keeps each one sorted, so that one bag
\* is one value.
PoolBefore(r1, r2) ==
    \/ r1.imported_at < r2.imported_at
    \/ r1.imported_at = r2.imported_at /\ PhoneNo(r1.phone) <= PhoneNo(r2.phone)

LedgerBefore(r1, r2) ==
    \/ r1.sold_at < r2.sold_at
    \/ /\ r1.sold_at = r2.sold_at
       /\ \/ PhoneNo(r1.phone) < PhoneNo(r2.phone)
          \/ /\ r1.phone = r2.phone
             /\ CustomerNo(r1.customer) <= CustomerNo(r2.customer)

PoolPut(rows, r) ==
    LET k == Cardinality({j \in 1..Len(rows) : PoolBefore(rows[j], r)})
    IN  SubSeq(rows, 1, k) \o <<r>> \o SubSeq(rows, k + 1, Len(rows))

LedgerPut(rows, r) ==
    LET k == Cardinality({j \in 1..Len(rows) : LedgerBefore(rows[j], r)})
    IN  SubSeq(rows, 1, k) \o <<r>> \o SubSeq(rows, k + 1, Len(rows))

RECURSIVE PoolInsert(_, _)
\* INSERT INTO raw_pool: the table with the rows of batch added
PoolInsert(rows, batch) ==
    IF batch = <<>> THEN rows
    ELSE PoolInsert(PoolPut(rows, Head(batch)), Tail(batch))

RECURSIVE LedgerInsert(_, _)
\* INSERT INTO sales_history: the table with the rows of batch added
LedgerInsert(rows, batch) ==
    IF batch = <<>> THEN rows
    ELSE LedgerInsert(LedgerPut(rows, Head(batch)), Tail(batch))

\* requirements: lists of {'provider': ..., 'qty': ...}
Requirement == [provider : WantedProviders, qty : Quantities]

ReqLists == UNION {[1..n -> Requirement] : n \in ListLengths}

\* as in the test scenario, the first order is a mix and the repeated order
\* has one requirement
OrdersOf(o) == IF o = "Anto_Repeat" THEN {r \in ReqLists : Len(r) = 1} ELSE ReqLists

----------------------------------------------------------------------------
(* The selection query *)

\* the freshness test with the reuse window in the place of the freshness window
FreshWithinCutoff(row, t) == row.imported_at >= t - CutoffDays

\* r.imported_at >= data_freshness_date; imported_at >= NOW() - INTERVAL '3 days'
Fresh(row, t) == row.imported_at >= t - FreshnessDays

\* the reuse test with a strict comparison
SoldAfter(row, t) == row.sold_at > t - CutoffDays

\* s.sold_at >= cutoff_date; sold_at >= NOW() - INTERVAL '30 days'
SoldSince(row, t) == row.sold_at >= t - CutoffDays

\* the phone numbers of the NOT IN subquery / of the Blacklist CTE
Blacklist(led, t) == {led[k].phone : k \in {j \in 1..Len(led) : SoldSince(led[j], t)}}

\* sales_history as another connection would read it: the committed rows only
CommittedLedgerOnly(o) == ledger

\* sales_history as a statement of order o reads it: the committed rows and
\* the rows its own transaction has inserted
VisibleLedger(o) == LedgerInsert(ledger, pending[o])

\* positions of the raw_pool rows that pass the WHERE clause
CandidateRows(prov, t, led) ==
    {k \in 1..Len(pool) : /\ pool[k].provider = prov
                          /\ Fresh(pool[k], t)
                          /\ pool[k].phone \notin Blacklist(led, t)}

\* GROUP BY r.phone_number: one row for each phone number
GroupByPhone(rows) ==
    {k \in rows : \A j \in rows : pool[j].phone = pool[k].phone => k <= j}

\* the rows the query yields before LIMIT: grouped in voucher_system.py,
\* every matching row in voucher_postgres.py (its query has no DISTINCT)
QueryRows(b, prov, t, led) ==
    IF b = "sqlite" THEN GroupByPhone(CandidateRows(prov, t, led))
    ELSE CandidateRows(prov, t, led)

\* LIMIT qty without ORDER BY: any qty of the rows, all of them when fewer
Limit(rows, qty) ==
    {S \in SUBSET rows : Cardinality(S) = Min(qty, Cardinality(rows))}

\* found_numbers = [row[0] for row in fetchall()], listed in pool order
FoundNumbers(S) ==
    LET ks == SetToSeq(S) IN [k \in 1..Len(ks) |-> pool[ks[k]].phone]

\* NOW() is the start of the PostgreSQL transaction, which the first execute
\* opens; the SQLite cutoffs are computed before the loop
QueryTime(o) ==
    IF backend = "postgres" /\ idx[o] = 1 THEN now ELSE txnNow[o]

\* sales_records / sales_data: one row for each element of found_numbers
SalesRows(found, customer, t) ==
    [k \in 1..Len(found) |-> [phone |-> found[k], customer |-> customer, sold_at |-> t]]

\* results[provider] = found_numbers
SetResult(res, prov, found) ==
    [p \in DOMAIN res \cup {prov} |-> IF p = prov THEN found ELSE res[p]]

\* a commit that leaves the new rows in the place of the old ones
CommittedInPlace(led, pend) == LedgerInsert(<<>>, pend)

\* sales_history after conn.commit()
Committed(led, pend) == LedgerInsert(led, pend)

\* a rollback that keeps the inserted rows, as conn.commit() in its place would
RolledBackKeepsRows(led, pend) == LedgerInsert(led, pend)

\* sales_history after conn.rollback(), or after the connection is dropped
RolledBack(led, pend) == led

\* a loop that a shortage ends: break in the "Shortage!" branch
StopAtShortage(o) ==
    IF idx[o] < Len(reqs[o]) /\ Len(alloc[o][idx[o]]) >= reqs[o][idx[o]].qty
    THEN "select" ELSE "commit"

\* the for loop: the next requirement, or conn.commit() after the last
AfterRequirement(o) == IF idx[o] < Len(reqs[o]) THEN "select" ELSE "commit"

NoResult == [kind |-> "none"]

Returned(res) == [kind |-> "return", value |-> res]

Raised == [kind |-> "raise"]

\* sqlite3.OperationalError: database is locked
Locked == [kind |-> "raise", error |-> "locked"]

EmptyDict == [p \in {} |-> <<>>]

\* threads or processes that call the operations
Workers == {"w1", "w2"}

\* no operation has been called
NoOp == [kind |-> "none", at |-> "idle", conn |-> FALSE, cur |-> FALSE]

\* the callers of init_db_partitions: the script and the scheduled job
Jobs == {"script", "scheduled"}

\* no call of init_db_partitions is running
NoJob == [at |-> "idle", base |-> 0, i |-> 0, made |-> {}]

----------------------------------------------------------------------------
(* State machine *)

Init ==
    /\ backend \in Backends
    /\ now = 0
    /\ pool = <<>>
    /\ ledger = <<>>
    /\ lockHolder = "none"
    /\ pc = [o \in Customers |-> "idle"]
    /\ reqs = [o \in Customers |-> <<>>]
    /\ idx = [o \in Customers |-> 1]
    /\ txnNow = [o \in Customers |-> 0]
    /\ alloc = [o \in Customers |-> <<>>]
    /\ pending = [o \in Customers |-> <<>>]
    /\ results = [o \in Customers |-> EmptyDict]
    /\ ret = [o \in Customers |-> NoResult]
    /\ partitions = {}
    /\ job = [j \in Jobs |-> NoJob]
    /\ inUse = 0
    /\ op = [w \in Workers |-> NoOp]

\* time passes.  The clock counts days and an order lasts seconds: no order
\* is between its call and its return when the day changes.
Tick ==
    /\ \A o \in Customers : pc[o] \in {"idle", "committed", "failed"}
    /\ \E t \in Instants : t > now /\ now' = t
    /\ UNCHANGED <<backend, pool, ledger, lockHolder, orderVars>>
    /\ UNCHANGED adminVars

\* ingest_file / ingest_file_postgres: the records of one file, inserted and
\* committed together.  A SQLite writer waits while another connection holds
\* the write lock.
Ingest ==
    /\ backend = "sqlite" => lockHolder = "none"
    /\ Len(pool) < MaxPool
    /\ \E n \in 1..(MaxPool - Len(pool)) :
         \E phones \in [1..n -> Phones] :
            pool' = PoolInsert(pool, [k \in 1..n |-> PoolRow(phones[k], now)])
    /\ UNCHANGED <<backend, now, ledger, lockHolder, orderVars>>
    /\ UNCHANGED adminVars

\* the locals of the call are gone once it has returned or raised
Forget(o) ==
    /\ reqs' = [reqs EXCEPT ![o] = <<>>]
    /\ idx' = [idx EXCEPT ![o] = 1]
    /\ txnNow' = [txnNow EXCEPT ![o] = 0]
    /\ alloc' = [alloc EXCEPT ![o] = <<>>]
    /\ results' = [results EXCEPT ![o] = EmptyDict]

\* process_order(customer_name, requirements) is called
Start(o) ==
    /\ pc[o] = "idle"
    /\ \E r \in OrdersOf(o) : reqs' = [reqs EXCEPT ![o] = r]
    /\ txnNow' = [txnNow EXCEPT ![o] = now]
    /\ pc' = [pc EXCEPT ![o] = "select"]
    /\ UNCHANGED <<backend, now, pool, ledger, lockHolder, idx, alloc, pending,
                   results, ret>>
    /\ UNCHANGED adminVars

\* c.execute(query, ...) and fetchall() for requirement idx
Select(o) ==
    /\ pc[o] = "select"
    /\ LET req == reqs[o][idx[o]]
           t   == QueryTime(o)
       IN  /\ txnNow' = [txnNow EXCEPT ![o] = t]
           /\ \E S \in Limit(QueryRows(backend, req.provider, t, VisibleLedger(o)), req.qty) :
                 alloc' = [alloc EXCEPT ![o] = Append(@, FoundNumbers(S))]
    /\ pc' = [pc EXCEPT ![o] = "insert"]
    /\ UNCHANGED <<backend, now, pool, ledger, lockHolder, reqs, idx, pending,
                   results, ret>>
    /\ UNCHANGED adminVars

\* "if found_numbers:" the INSERT into sales_history and results[provider];
\* then the loop moves on.  The INSERT of a SQLite connection takes the write
\* lock, and waits while another connection holds it.
Insert(o) ==
    /\ pc[o] = "insert"
    /\ LET req   == reqs[o][idx[o]]
           found == alloc[o][idx[o]]
       IN  IF found # <<>>
           THEN /\ backend = "sqlite" => lockHolder \in {"none", o}
                /\ lockHolder' = IF backend = "sqlite" THEN o ELSE lockHolder
                /\ pending' = [pending EXCEPT ![o] = LedgerInsert(@, SalesRows(found, o, now))]
                /\ results' = [results EXCEPT ![o] = SetResult(@, req.provider, found)]
           ELSE UNCHANGED <<lockHolder, pending, results>>
    /\ pc' = [pc EXCEPT ![o] = AfterRequirement(o)]
    /\ idx' = [idx EXCEPT ![o] = @ + 1]
    /\ UNCHANGED <<backend, now, pool, ledger, reqs, txnNow, alloc, ret>>
    /\ UNCHANGED adminVars

\* conn.commit() and return results
Commit(o) ==
    /\ pc[o] = "commit"
    /\ ledger' = Committed(ledger, pending[o])
    /\ pending' = [pending EXCEPT ![o] = <<>>]
    /\ lockHolder' = IF lockHolder = o THEN "none" ELSE lockHolder
    /\ pc' = [pc EXCEPT ![o] = "committed"]
    /\ ret' = [ret EXCEPT ![o] = Returned(results[o])]
    /\ Forget(o)
    /\ UNCHANGED <<backend, now, pool>>
    /\ UNCHANGED adminVars

\* The statement the order is about to run raises: a storage error, a lost
\* connection.  voucher_postgres.py catches it,
\* rolls back and returns results; when the rollback raises too (the
\* connection is gone) the exception reaches the caller.  voucher_system.py
\* catches nothing: the exception reaches the caller and the connection is
\* dropped without a commit.
Fail(o) ==
    /\ pc[o] \in {"select", "insert", "commit"}
    /\ ledger' = RolledBack(ledger, pending[o])
    /\ pending' = [pending EXCEPT ![o] = <<>>]
    /\ lockHolder' = IF lockHolder = o THEN "none" ELSE lockHolder
    /\ pc' = [pc EXCEPT ![o] = "failed"]
    /\ \E rollbackOk \in BOOLEAN :
          ret' = [ret EXCEPT ![o] = IF backend = "postgres" /\ rollbackOk
                                     THEN Returned(results[o])
                                     ELSE Raised]
    /\ Forget(o)
    /\ UNCHANGED <<backend, now, pool>>
    /\ UNCHANGED adminVars

\* The INSERT of a SQLite connection waits for the write lock that another
\* connection holds, and the wait ends at the busy timeout of sqlite3.connect
\* (5 seconds when none is given): the INSERT raises "database is locked".
\* voucher_system.py catches nothing: the exception reaches the caller.
Busy(o) ==
    /\ backend = "sqlite"
    /\ pc[o] = "insert"
    /\ alloc[o][idx[o]] # <<>>
    /\ lockHolder \notin {"none", o}
    /\ ledger' = RolledBack(ledger, pending[o])
    /\ pending' = [pending EXCEPT ![o] = <<>>]
    /\ pc' = [pc EXCEPT ![o] = "failed"]
    /\ ret' = [ret EXCEPT ![o] = Locked]
    /\ Forget(o)
    /\ UNCHANGED <<backend, now, pool, lockHolder>>
    /\ UNCHANGED adminVars

Next ==
    \/ Tick
    \/ Ingest
    \/ \E o \in Customers : Start(o)
    \/ \E o \in Customers : Select(o)
    \/ \E o \in Customers : Insert(o)
    \/ \E o \in Customers : Commit(o)
    \/ \E o \in Customers : Fail(o)
    \/ \E o \in Customers : Busy(o)

Spec == Init /\ [][Next]_vars

----------------------------------------------------------------------------
(* Vocabulary of the properties *)

Running(o) == pc[o] \in {"select", "insert", "commit"}

\* the rows of a sales_history table that carry customer label o
RowsOf(led, o) == {k \in 1..Len(led) : led[k].customer = o}

\* how many rows of led sell phone p to customer o
SoldCount(led, o, p) == Cardinality({k \in RowsOf(led, o) : led[k].phone = p})

\* how many times p occurs in the found lists of order o
FoundCount(o, p) ==
    Cardinality(UNION {{<<i, k>> : k \in {n \in 1..Len(alloc[o][i]) : alloc[o][i][n] = p}} :
                          i \in 1..Len(alloc[o])})

\* requirement i of order o found fewer than it asked for
Short(o, i) == Len(alloc[o][i]) < reqs[o][i].qty

\* order o takes the step that runs the query of its current requirement
SelectStep(o) == pc[o] = "select" /\ pc'[o] = "insert"

\* order o takes the step that commits
CommitStep(o) == pc[o] = "commit" /\ pc'[o] = "committed"

\* p has a pool row of provider prov ingested within the freshness window of t
FreshFor(p, prov, t) ==
    \E k \in 1..Len(pool) : /\ pool[k].phone = p
                            /\ pool[k].provider = prov
                            /\ t - pool[k].imported_at <= FreshnessDays

\* order o can see a sale of p made within the reuse window of t
SoldWithinWindow(o, p, t) ==
    \/ \E k \in 1..Len(ledger) :
          ledger[k].phone = p /\ t - ledger[k].sold_at <= CutoffDays
    \/ \E k \in 1..Len(pending[o]) :
          pending[o][k].phone = p /\ t - pending[o][k].sold_at <= CutoffDays

\* the identifiers of provider prov that are fresh and not sold within the
\* reuse window, as order o sees them at t
Eligible(o, prov, t) ==
    {p \in Phones : FreshFor(p, prov, t) /\ ~SoldWithinWindow(o, p, t)}

----------------------------------------------------------------------------
(* C1 *)

\* C1: no identifier is allocated to two committed orders while the earlier
\* allocation is inside the reuse window: two ledger rows of different orders
\* for one identifier lie more than the reuse window apart.
C1_DisjointAllocations ==
    \A i, j \in 1..Len(ledger) :
        ( /\ ledger[i].phone = ledger[j].phone
          /\ ledger[i].customer # ledger[j].customer
          /\ ledger[i].sold_at <= ledger[j].sold_at )
        => ledger[j].sold_at - ledger[i].sold_at > CutoffDays

----------------------------------------------------------------------------
(* C2 *)

\* C2: the ledger rows of an order appear only at the step that commits it,
\* all together: then every requirement has been processed and the new rows
\* are exactly the reservations of all requirements.  At every other step,
\* a failure included, the rows of the order stay as they are, so an order
\* that fails leaves none.
C2_AllOrNothing ==
    [][\A o \in Customers :
          IF CommitStep(o)
          THEN /\ Len(alloc[o]) = Len(reqs[o])
               /\ \A p \in Phones :
                     SoldCount(ledger', o, p) = SoldCount(ledger, o, p) + FoundCount(o, p)
          ELSE \/ ledger' = ledger
               \/ \A p \in Phones : SoldCount(ledger', o, p) = SoldCount(ledger, o, p)
      ]_vars

\* an order has failed after it reserved identifiers, and the ledger holds
\* no row of it
C2_Witness ==
    \E o \in Customers :
        /\ pc[o] = "failed"
        /\ ret[o].kind = "return"
        /\ DOMAIN ret[o].value # {}
        /\ RowsOf(ledger, o) = {}

----------------------------------------------------------------------------
(* C3 *)

\* C3: the value returned to the caller never lists an identifier whose
\* reservation was rolled back: every identifier of a returned result has a
\* ledger row of that order.
C3_NoPartialResult ==
    \A o \in Customers :
        ret[o].kind = "return" =>
            \A prov \in DOMAIN ret[o].value :
                \A p \in Range(ret[o].value[prov]) : SoldCount(ledger, o, p) > 0

----------------------------------------------------------------------------
(* C4 *)

\* C4: the found lists of two requirements of one order share no identifier.
C4_DisjointWithinOrder ==
    \A o \in Customers :
        \A i, j \in 1..Len(alloc[o]) :
            i < j => Range(alloc[o][i]) \cap Range(alloc[o][j]) = {}

\* an order has found identifiers for two requirements of the same provider
C4_Witness ==
    \E o \in Customers :
        /\ Len(alloc[o]) = 2
        /\ reqs[o][1].provider = reqs[o][2].provider
        /\ alloc[o][1] # <<>>
        /\ alloc[o][2] # <<>>

----------------------------------------------------------------------------
(* C5 *)

\* C5: at every query, an identifier that is fresh for the requested provider
\* is left out when a sale of it lies within the reuse window of the query
\* time, and otherwise it is selectable: it is found, or the query found the
\* full quantity without it.
C5_ReuseWindow ==
    [][\A o \in Customers :
          SelectStep(o) =>
             LET req   == reqs[o][idx[o]]
                 t     == txnNow'[o]
                 found == alloc'[o][idx[o]]
             IN  \A p \in Phones :
                    FreshFor(p, req.provider, t) =>
                       IF SoldWithinWindow(o, p, t)
                       THEN p \notin Range(found)
                       ELSE p \in Range(found) \/ Len(found) = req.qty
      ]_vars

\* an identifier sold longer ago than the reuse window has been found again
C5_Witness ==
    \E o \in Customers :
        \E i \in 1..Len(alloc[o]) :
            \E k \in 1..Len(ledger) :
                /\ ledger[k].phone \in Range(alloc[o][i])
                /\ ledger[k].customer # o
                /\ txnNow[o] - ledger[k].sold_at > CutoffDays

----------------------------------------------------------------------------
(* C6 *)

\* C6: every identifier found for a requirement has a pool row of the
\* requested provider ingested within the freshness window.
C6_OnlyFresh ==
    \A o \in Customers :
        \A i \in 1..Len(alloc[o]) :
            \A p \in Range(alloc[o][i]) : FreshFor(p, reqs[o][i].provider, txnNow[o])

\* a requirement ran short although the pool holds a row of its provider
\* that was never sold: the row is older than the freshness window
C6_Witness ==
    \E o \in Customers :
        \E i \in 1..Len(alloc[o]) :
            /\ Short(o, i)
            /\ \E k \in 1..Len(pool) :
                  /\ pool[k].provider = reqs[o][i].provider
                  /\ txnNow[o] - pool[k].imported_at > FreshnessDays
                  /\ \A j \in 1..Len(ledger) : ledger[j].phone # pool[k].phone
                  /\ \A j \in 1..Len(pending[o]) : pending[o][j].phone # pool[k].phone

----------------------------------------------------------------------------
(* C7 *)

\* C7: a query that runs while no other order is running finds
\* min(qty, number of eligible identifiers) identifiers.
C7_FoundIsMin ==
    [][\A o \in Customers :
          (SelectStep(o) /\ \A q \in Customers \ {o} : ~Running(q)) =>
             LET req == reqs[o][idx[o]]
             IN  Len(alloc'[o][idx[o]]) =
                    Min(req.qty, Cardinality(Eligible(o, req.provider, txnNow'[o])))
      ]_vars

----------------------------------------------------------------------------
(* C8 *)

\* C8: the identifiers found for one requirement hold each identifier once.
C8_NoDuplicates ==
    \A o \in Customers :
        \A i \in 1..Len(alloc[o]) : Cardinality(Range(alloc[o][i])) = Len(alloc[o][i])

----------------------------------------------------------------------------
(* C9 *)

\* C9: the result returned by a committed order has, for every requirement,
\* an entry that carries the identifiers found for it; a requirement that
\* found nothing is there too.
C9_EveryRequirementReported ==
    [][\A o \in Customers :
          CommitStep(o) =>
             /\ ret'[o].kind = "return"
             /\ \A i \in 1..Len(reqs[o]) :
                   /\ reqs[o][i].provider \in DOMAIN ret'[o].value
                   /\ ret'[o].value[reqs[o][i].provider] = alloc[o][i]
      ]_vars

----------------------------------------------------------------------------
(* C10 *)

\* C10: when a requirement has run short the loop goes on: the order reaches
\* its commit only with every requirement processed and every identifier found
\* reserved, and the commit writes them all to the ledger.
C10_ShortageGoesOn ==
    [][\A o \in Customers :
          /\ (pc'[o] = "commit" /\ \E i \in 1..Len(alloc'[o]) : Short(o, i)')
             => /\ Len(alloc'[o]) = Len(reqs'[o])
                /\ \A p \in Phones : SoldCount(pending'[o], o, p) = FoundCount(o, p)'
          /\ (CommitStep(o) /\ \E i \in 1..Len(alloc[o]) : Short(o, i))
             => \A p \in Phones : SoldCount(ledger', o, p) >= FoundCount(o, p)
      ]_vars

\* an order is at its commit with a first requirement that ran short and a
\* second requirement that found identifiers
C10_Witness ==
    \E o \in Customers :
        /\ pc[o] = "commit"
        /\ Len(alloc[o]) = 2
        /\ Short(o, 1)
        /\ alloc[o][2] # <<>>

----------------------------------------------------------------------------
(* The test scenario: one order run twice, back to back *)

\* the largest quantity a requirement asks for
MaxQuantity == CHOOSE q \in Quantities : \A r \in Quantities : r <= q

\* the pool of the scenario: twice the largest quantity, and one row more
TwiceRows == 2 * MaxQuantity + 1

\* tsel numbers, as many as two orders of the largest quantity take
TwicePhones == {<<0, 8, 1, 2, d>> : d \in 1..(2 * MaxQuantity)}

\* one provider and one quantity, as {'provider': 'tsel', 'qty': 5000}
TwiceOrders == {r \in ReqLists : Len(r) = 1 /\ r[1].provider = "tsel"}

\* the script is about to run: both calls will pass the same requirements
InitTwice ==
    /\ backend \in Backends
    /\ now = 0
    /\ pool = <<>>
    /\ ledger = <<>>
    /\ lockHolder = "none"
    /\ pc = [o \in Customers |-> "idle"]
    /\ \E r \in TwiceOrders : reqs = [o \in Customers |-> r]
    /\ idx = [o \in Customers |-> 1]
    /\ txnNow = [o \in Customers |-> 0]
    /\ alloc = [o \in Customers |-> <<>>]
    /\ pending = [o \in Customers |-> <<>>]
    /\ results = [o \in Customers |-> EmptyDict]
    /\ ret = [o \in Customers |-> NoResult]
    /\ partitions = {}
    /\ job = [j \in Jobs |-> NoJob]
    /\ inUse = 0
    /\ op = [w \in Workers |-> NoOp]

\* ingest_file before the orders: the files of the scenario are ingested
\* before the first call of process_order
IngestBefore ==
    /\ \A o \in Customers : pc[o] = "idle"
    /\ Len(pool) < TwiceRows
    /\ \E n \in 1..(TwiceRows - Len(pool)) :
         \E phones \in [1..n -> TwicePhones] :
            pool' = PoolInsert(pool, [k \in 1..n |-> PoolRow(phones[k], now)])
    /\ UNCHANGED <<backend, now, ledger, lockHolder, orderVars>>
    /\ UNCHANGED adminVars

\* the script calls process_order: "Anto" first, and "Anto_Repeat" once the
\* first call has returned
Call(o) ==
    /\ pc[o] = "idle"
    /\ o = "Anto_Repeat" => pc["Anto"] = "committed"
    /\ txnNow' = [txnNow EXCEPT ![o] = now]
    /\ pc' = [pc EXCEPT ![o] = "select"]
    /\ UNCHANGED <<backend, now, pool, ledger, lockHolder, reqs, idx, alloc,
                   pending, results, ret>>
    /\ UNCHANGED adminVars

NextTwice ==
    \/ IngestBefore
    \/ \E o \in Customers : Call(o)
    \/ \E o \in Customers : Select(o)
    \/ \E o \in Customers : Insert(o)
    \/ \E o \in Customers : Commit(o)
    \/ \E o \in Customers : Fail(o)

SpecTwice == InitTwice /\ [][NextTwice]_vars

----------------------------------------------------------------------------
(* C11 *)

\* the identifiers of provider prov that are fresh at t and that nobody but
\* the first order has been sold: the fresh, unsold identifiers the first
\* order started with
UnsoldBeforeFirst(prov, t) ==
    {p \in TwicePhones :
        /\ FreshFor(p, prov, t)
        /\ \A k \in 1..Len(ledger) : ledger[k].phone = p => ledger[k].customer = "Anto"}

\* the identifiers the first order was allocated
FirstSet(prov) ==
    IF ret["Anto"].kind = "return" /\ prov \in DOMAIN ret["Anto"].value
    THEN Range(ret["Anto"].value[prov]) ELSE {}

\* C11: when the repeated order commits after the first order has committed,
\* and the pool held at least 2q fresh, unsold, distinct identifiers of the
\* provider, the two allocated sets have q elements each and share none.
C11_TwiceDisjoint ==
    [][(CommitStep("Anto_Repeat") /\ pc["Anto"] = "committed") =>
          LET req == reqs["Anto_Repeat"][1]
              S1  == FirstSet(req.provider)
              S2  == Range(alloc["Anto_Repeat"][1])
          IN  Cardinality(UnsoldBeforeFirst(req.provider, now)) >= 2 * req.qty
                 => /\ Cardinality(S1) = req.qty
                    /\ Cardinality(S2) = req.qty
                    /\ S1 \cap S2 = {}
      ]_vars

----------------------------------------------------------------------------
(* init_db_partitions (voucher_postgres.py) *)

\* for i in range(4): today and the next 3 days
DaysAhead == 4

\* day_start of every turn of the loop of a call that reads base_date
PartitionRange(base) == {base + i : i \in 0..(DaysAhead - 1)}

\* day_start = base_date + timedelta(days=i).  part_name is made of the year,
\* month and day of day_start: one name for each day, so a partition is
\* named by its day.  PostgreSQL holds one relation of a name at most.
DayStart(j) == job[j].base + job[j].i

\* a lookup that finds no relation, whatever exists
NeverRegistered(j, day) == FALSE

\* SELECT to_regclass(part_name) is not NULL: the catalog shows the
\* committed partitions and those the call's own transaction has created
ToRegclass(j, day) == day \in partitions \cup job[j].made

\* the loop after this day: the next day, or conn.commit() after the last
AfterDay(j) == IF job[j].i + 1 < DaysAhead THEN "check" ELSE "commit"

\* the call has returned: its locals are gone
Ended(how) == [at |-> how, base |-> 0, i |-> 0, made |-> {}]

\* the partition creation runs on PostgreSQL
InitPart == Init /\ backend = "postgres"

\* init_db_partitions() is called: conn, cur and base_date = date.today()
JobStart(j) ==
    /\ job[j].at \in {"idle", "done", "duplicate", "failed"}
    /\ job' = [job EXCEPT ![j] = [at |-> "check", base |-> now, i |-> 0, made |-> {}]]
    /\ UNCHANGED <<now, partitions, storeVars, connVars>>

\* cur.execute("SELECT to_regclass(...)") and "if not cur.fetchone()[0]"
Exists(j) ==
    /\ job[j].at = "check"
    /\ job' = [job EXCEPT ![j] =
                 IF ToRegclass(j, DayStart(j))
                 THEN [@ EXCEPT !.at = AfterDay(j), !.i = @ + 1]
                 ELSE [@ EXCEPT !.at = "create"]]
    /\ UNCHANGED <<now, partitions, storeVars, connVars>>

\* cur.execute(CREATE TABLE part_name PARTITION OF raw_pool ...).  The
\* statement waits while another transaction holds a partition of that name
\* uncommitted.  When the name is committed it raises "relation already
\* exists": the except branch rolls back what the call has created and prints
\* the error.
Create(j) ==
    /\ job[j].at = "create"
    /\ \A k \in Jobs \ {j} : DayStart(j) \notin job[k].made
    /\ job' = [job EXCEPT ![j] =
                 IF DayStart(j) \in partitions
                 THEN Ended("duplicate")
                 ELSE [@ EXCEPT !.at = AfterDay(j), !.i = @ + 1,
                                !.made = @ \cup {DayStart(j)}]]
    /\ UNCHANGED <<now, partitions, storeVars, connVars>>

\* conn.commit() and "Partitions initialized."
JobCommit(j) ==
    /\ job[j].at = "commit"
    /\ partitions' = partitions \cup job[j].made
    /\ job' = [job EXCEPT ![j] = Ended("done")]
    /\ UNCHANGED <<now, storeVars, connVars>>

\* the statement the call is about to run raises for a reason of the server
\* or the network: conn.rollback() and "Error creating partitions"
JobFail(j) ==
    /\ job[j].at \in {"check", "create", "commit"}
    /\ job' = [job EXCEPT ![j] = Ended("failed")]
    /\ UNCHANGED <<now, partitions, storeVars, connVars>>

NextPart ==
    \/ Tick
    \/ \E j \in Jobs : JobStart(j)
    \/ \E j \in Jobs : Exists(j)
    \/ \E j \in Jobs : Create(j)
    \/ \E j \in Jobs : JobCommit(j)
    \/ \E j \in Jobs : JobFail(j)

SpecPart == InitPart /\ [][NextPart]_vars

----------------------------------------------------------------------------
(* C12 *)

\* C12: a call that runs when every day of its range has a committed
\* partition (a call with the same range has committed) issues no CREATE
\* and creates nothing, and its commit leaves the set of partitions as it
\* was, one partition for each day of the range.
C12_Idempotent ==
    [][\A j \in Jobs :
          PartitionRange(job[j].base) \subseteq partitions =>
             /\ job[j].at = "check" =>
                   /\ job'[j].at \in {"check", "commit", "failed"}
                   /\ job'[j].made = {}
             /\ (job[j].at = "commit" /\ job'[j].at = "done") =>
                   /\ job[j].made = {}
                   /\ partitions' = partitions
                   /\ PartitionRange(job[j].base) \subseteq partitions'
      ]_vars

\* a call has committed and a second call with the same range has gone
\* through all its days and is about to commit
C12_Witness ==
    \E j \in Jobs : \E k \in Jobs \ {j} :
        /\ job[k].at = "done"
        /\ job[j].at = "commit"
        /\ job[j].base = now
        /\ job[j].made = {}
        /\ PartitionRange(job[j].base) \subseteq partitions

----------------------------------------------------------------------------
(* C13 *)

\* C13: no call of the partition creation ends in the "already exists"
\* error, also when two calls check the same day before either creates it.
C13_NoDuplicateError ==
    \A j \in Jobs : job[j].at # "duplicate"

----------------------------------------------------------------------------
(* C14 *)

\* how many times row r occurs in a table
Count(rows, r) == Cardinality({k \in 1..Len(rows) : rows[k] = r})

\* every row of table old is in table new, as many times at least
GrownFrom(old, new) ==
    old = new \/ \A k \in 1..Len(old) : Count(new, old[k]) >= Count(old, old[k])

\* C14: a step of an order, its commit and its failure included, leaves
\* raw_pool as it was; a step that adds to raw_pool leaves sales_history as
\* it was; and at every step the committed rows of both tables are kept.
C14_AppendOnly ==
    [][/\ pc' # pc => pool' = pool
       /\ pool' # pool => ledger' = ledger
       /\ GrownFrom(pool, pool')
       /\ GrownFrom(ledger, ledger')
      ]_vars

\* an order has failed while the ledger holds a sale, and a file was
\* ingested after that sale
C14_Witness ==
    /\ \E o \in Customers : pc[o] = "failed"
    /\ \E k \in 1..Len(ledger) : \E n \in 1..Len(pool) :
          pool[n].imported_at > ledger[k].sold_at

----------------------------------------------------------------------------
(* C15 *)

\* the identifiers another order than o has found or reserved, those o
\* has reserved for a requirement before, and those of the ledger sold
\* within the reuse window of t: what is gone for the requirement of o once
\* the competing orders have committed
TakenFrom(o, t) ==
    {ledger[k].phone : k \in {n \in 1..Len(ledger) : t - ledger[n].sold_at <= CutoffDays}}
    \cup UNION {UNION {Range(alloc[q][i]) : i \in 1..Len(alloc[q])} : q \in Customers \ {o}}
    \cup UNION {{pending[q][k].phone : k \in 1..Len(pending[q])} : q \in Customers}

\* the identifiers of provider prov, fresh at t, that are left for order o
Remaining(o, prov, t) ==
    {p \in Phones : FreshFor(p, prov, t) /\ p \notin TakenFrom(o, t)}

\* C15: contention alone costs an order nothing.  A query that runs while
\* another order is running finds fewer than the quantity only when fewer
\* identifiers are left for it, and an order fails on the lock that another
\* order holds only when fewer identifiers than the quantity are left for it.
C15_NoSpuriousLoss ==
    [][\A o \in Customers :
          /\ (SelectStep(o) /\ \E q \in Customers \ {o} : Running(q)) =>
                LET req == reqs[o][idx[o]]
                IN  Len(alloc'[o][idx[o]]) < req.qty
                       => Cardinality(Remaining(o, req.provider, txnNow'[o])) < req.qty
          /\ (pc'[o] = "failed" /\ ret'[o] = Locked) =>
                LET req == reqs[o][idx[o]]
                IN  Cardinality(Remaining(o, req.provider, txnNow[o])) < req.qty
      ]_vars

----------------------------------------------------------------------------
(* C16 *)

\* order o has run the query of a requirement and has another one to run
BetweenRequirements(o) ==
    \/ pc[o] = "select" /\ idx[o] > 1
    \/ pc[o] = "insert" /\ idx[o] < Len(reqs[o])

\* the identifiers a query of order o for provider prov would choose from
Selectable(o, prov) ==
    {pool[k].phone : k \in QueryRows(backend, prov, txnNow[o], VisibleLedger(o))}

\* C16: between two requirements of a running order, a step of somebody
\* else (an ingestion, the commit of another order) leaves what the order
\* can select as it was.
C16_SnapshotReads ==
    [][\A o \in Customers :
          ( /\ BetweenRequirements(o)
            /\ pc'[o] = pc[o]
            /\ pool' # pool \/ ledger' # ledger )
          => \A prov \in WantedProviders : Selectable(o, prov)' = Selectable(o, prov)
      ]_vars

----------------------------------------------------------------------------
(* C17 *)

\* the identifiers of a results dict
ResultSet(res) == UNION {Range(res[p]) : p \in DOMAIN res}

\* the identifiers of the rows of a table
PhonesOf(rows) == {rows[k].phone : k \in 1..Len(rows)}

\* C17: the result an order returns at its commit lists the identifiers that
\* the commit writes to the ledger for it, those and no others.
C17_ResultIsLedger ==
    [][\A o \in Customers :
          CommitStep(o) =>
             /\ ret'[o].kind = "return"
             /\ ResultSet(ret'[o].value) = PhonesOf(pending[o])
             /\ \A p \in PhonesOf(pending[o]) : SoldCount(ledger', o, p) > 0
      ]_vars

----------------------------------------------------------------------------
(* Connections: get_db_connection, the cursor, commit or rollback, release *)

\* SimpleConnectionPool(1, 10, ...): maxconn
PoolMax == 10

\* the operations of voucher_postgres.py and of voucher_system.py
OpKinds(b) ==
    IF b = "postgres" THEN {"order", "ingest", "partitions"} ELSE {"order", "ingest"}

\* The exit of an operation after an exception: is the connection given
\* back?  voucher_postgres.py: "finally: cur.close();
\* release_db_connection(conn)", where cur is unbound when conn.cursor()
\* raised, so cur.close() raises and the release is not reached.
\* voucher_system.py has no try: conn.close() is skipped, and the connection
\* is closed when Python collects the object, at once or not.
ReleasedOnError(b, cur) == IF b = "postgres" THEN {cur} ELSE BOOLEAN

\* an operation is called: conn = get_db_connection().  getconn() raises
\* PoolError when maxconn connections are out; the call is before the try,
\* so the exception reaches the caller.  sqlite3.connect has no pool; the
\* model follows as many open connections there.
OpAcquire(w) ==
    /\ op[w].at \in {"idle", "returned", "raised"}
    /\ \E kind \in OpKinds(backend) :
          IF inUse < PoolMax
          THEN /\ inUse' = inUse + 1
               /\ op' = [op EXCEPT ![w] = [kind |-> kind, at |-> "cursor",
                                           conn |-> TRUE, cur |-> FALSE]]
          ELSE /\ backend = "postgres"
               /\ inUse' = inUse
               /\ op' = [op EXCEPT ![w] = [kind |-> kind, at |-> "raised",
                                           conn |-> FALSE, cur |-> FALSE]]
    /\ UNCHANGED <<now, partitions, job, storeVars>>

\* cur = conn.cursor()
OpCursor(w) ==
    /\ op[w].at = "cursor"
    /\ op' = [op EXCEPT ![w].at = "body", ![w].cur = TRUE]
    /\ UNCHANGED <<now, partitions, job, inUse, storeVars>>

\* the statements of the operation run
OpBody(w) ==
    /\ op[w].at = "body"
    /\ op' = [op EXCEPT ![w].at = "commit"]
    /\ UNCHANGED <<now, partitions, job, inUse, storeVars>>

\* conn.commit(), then the finally block (cur.close(),
\* release_db_connection(conn)) or conn.close(), and the return
OpCommit(w) ==
    /\ op[w].at = "commit"
    /\ inUse' = inUse - 1
    /\ op' = [op EXCEPT ![w].at = "returned", ![w].conn = FALSE, ![w].cur = FALSE]
    /\ UNCHANGED <<now, partitions, job, storeVars>>

\* conn.cursor(), a statement or conn.commit() raises.  voucher_postgres.py
\* runs the except branch (conn.rollback(), print) and the finally block,
\* and returns when neither raises; voucher_system.py lets the exception go.
OpRaise(w) ==
    /\ op[w].at \in {"cursor", "body", "commit"}
    /\ \E released \in ReleasedOnError(backend, op[w].cur) :
          /\ inUse' = IF released THEN inUse - 1 ELSE inUse
          /\ \E rollbackOk \in BOOLEAN :
                op' = [op EXCEPT ![w].at = IF backend = "postgres" /\ released /\ rollbackOk
                                           THEN "returned" ELSE "raised",
                                 ![w].conn = ~released,
                                 ![w].cur = FALSE]
    /\ UNCHANGED <<now, partitions, job, storeVars>>

NextConn ==
    \/ \E w \in Workers : OpAcquire(w)
    \/ \E w \in Workers : OpCursor(w)
    \/ \E w \in Workers : OpBody(w)
    \/ \E w \in Workers : OpCommit(w)
    \/ \E w \in Workers : OpRaise(w)

SpecConn == Init /\ [][NextConn]_vars

----------------------------------------------------------------------------
(* C18 *)

\* C18: an operation that has returned or raised holds no connection, and
\* when no operation is running no connection is out.
C18_ReleasedOnExit ==
    /\ \A w \in Workers : op[w].at \in {"returned", "raised"} => ~op[w].conn
    /\ (\A w \in Workers : op[w].at \in {"idle", "returned", "raised"}) => inUse = 0

\* the pool has run dry through operations that failed: no operation is
\* running, and every connection is out
C18_PoolExhausted ==
    /\ backend = "postgres"
    /\ \A w \in Workers : op[w].at \in {"idle", "returned", "raised"}
    /\ inUse = PoolMax

====
